---- MODULE Spec2Model ----
(***************************************************************************)
(* Model of the nexus-backend skill-matching script: the graph store       *)
(* written by addSkillToPerson, and main's workflow over it                *)
(* (connectDatabase, getAllSkills, findNecessarySkills, getPersonList,     *)
(* findMatchingPerson).  Every awaited external call is a Call action      *)
(* followed by a Return action that draws the collaborator's answer.       *)
(***************************************************************************)
EXTENDS Integers, Sequences, FiniteSets, TLC

\* Bound on the length of the skill list the completion service returns.
MaxUsefulSkills == 2

\* Person and skill names the store and the completion service may use.
PersonNames == {"Ada Lovelace", "Lius Hohmann", "Grace Hopper", "constructor"}
SkillNames == {"JavaScript", "C#"}

\* Properties every object literal inherits from Object.prototype.
ObjectPrototypeProps ==
    {"constructor", "toString", "toLocaleString", "valueOf", "hasOwnProperty",
     "isPrototypeOf", "propertyIsEnumerable", "__proto__"}

VARIABLES
    personNodes,         \* store: number of Person nodes per personName
    skillNodes,          \* store: number of Skill nodes per skillName
    hasSkill,            \* store: number of HAS_SKILL edges per (person, skill)
    repeatedAssign,      \* an addSkillToPerson call met an existing relation
    pc,                  \* position of main
    pending,             \* indices in calls of the calls not yet answered
    calls,               \* external calls issued, in order
    allSkills,           \* main: allSkills
    systemPrompt,        \* findNecessarySkills: system message content, as tokens
    usefulSkills,        \* main: usefulSkills
    i,                   \* getPersonList: index of necessarySkill
    records,             \* getPersonList: result.records of the current query
    j,                   \* getPersonList: index of record
    personContainer,     \* getPersonList: personContainer (own properties, in order)
    mainPersonContainer, \* main: personContainer
    matchingPerson,      \* main: matchingPerson
    output,              \* results written by main's console.log
    error                \* what rejected main's promise

vars == <<personNodes, skillNodes, hasSkill, repeatedAssign, pc, pending, calls,
          allSkills, systemPrompt, usefulSkills, i, records, j, personContainer,
          mainPersonContainer, matchingPerson, output, error>>

storeVars == <<personNodes, skillNodes, hasSkill, repeatedAssign>>

\* ---------------------------------------------------------------- values

Uninitialized == [kind |-> "uninitialized"]
Undefined == [kind |-> "undefined"]
Null == [kind |-> "null"]
InheritedFunction == [kind |-> "function"]
Array(v) == [kind |-> "array", val |-> v]
Object(v) == [kind |-> "object", val |-> v]

\* JavaScript truthiness of the values above: arrays (empty ones too), objects
\* and functions are truthy; undefined and null are not.
TruthyAlways(v) == TRUE
Truthy(v) == v.kind \notin {"undefined", "null"}

Range(q) == {q[k] : k \in 1..Len(q)}

RECURSIVE SumOver(_, _)
SumOver(f, S) ==
    IF S = {} THEN 0
    ELSE LET x == CHOOSE y \in S : TRUE IN f[x] + SumOver(f, S \ {x})

\* The orders in which a query may return one row per counted element.
Orderings(count, S) ==
    LET n == SumOver(count, S) IN
    {q \in [1..n -> S] : \A x \in S : Cardinality({k \in 1..n : q[k] = x}) = count[x]}

\* Array.prototype.join, as tokens.
RECURSIVE Join(_, _)
Join(q, sep) ==
    IF Len(q) = 0 THEN <<>>
    ELSE IF Len(q) = 1 THEN <<q[1]>>
    ELSE <<q[1], sep>> \o Join(Tail(q), sep)

\* ---------------------------------------------------------------- store

\* MERGE: create the node or relation only if none matches.
CreateNode(count) == count + 1
MergeNode(count) == IF count = 0 THEN 1 ELSE count

Store == [persons |-> personNodes, skills |-> skillNodes, edges |-> hasSkill]

AssignSkill(st, person, skill) ==
    [persons |-> [st.persons EXCEPT ![person] = MergeNode(@)],
     skills |-> [st.skills EXCEPT ![skill] = MergeNode(@)],
     edges |-> [st.edges EXCEPT ![<<person, skill>>] = MergeNode(@)]]

\* Rows of MATCH (skill: Skill) RETURN skill.
SkillRows == Orderings(skillNodes, SkillNames)

\* Rows of MATCH (person:Person)-[:HAS_SKILL]->(skill:Skill { skillName }).
PersonRows(skillName) ==
    Orderings([p \in PersonNames |-> hasSkill[<<p, skillName>>]], PersonNames)

\* ---------------------------------------------------------------- objects

HasOwn(obj, key) == \E k \in 1..Len(obj) : obj[k].key = key

OwnIndex(obj, key) == CHOOSE k \in 1..Len(obj) : obj[k].key = key

\* obj[key]: an own property, else one inherited from Object.prototype.
Get(obj, key) ==
    IF HasOwn(obj, key) THEN Array(obj[OwnIndex(obj, key)].value)
    ELSE IF key \in ObjectPrototypeProps THEN InheritedFunction
    ELSE Undefined

\* obj[key] = value
SetOwnDroppingOthers(obj, key, value) == <<[key |-> key, value |-> value]>>
SetOwn(obj, key, value) ==
    IF HasOwn(obj, key)
    THEN [obj EXCEPT ![OwnIndex(obj, key)] = [key |-> key, value |-> value]]
    ELSE Append(obj, [key |-> key, value |-> value])

\* list.push(skill)
PushFront(list, skill) == <<skill>> \o list
Push(list, skill) == Append(list, skill)

Keys(obj) == {obj[k].key : k \in 1..Len(obj)}

\* ---------------------------------------------------------------- prompts

FindInstruction ==
    "Find the skills out of the following list that could help the most with the problem the user describes. "

FindInstructionWithoutList ==
    "Find the skills that could help the most with the problem the user describes."

FindSystemContentBranching(existingSkills) ==
    IF Len(existingSkills) = 0 THEN <<FindInstructionWithoutList>>
    ELSE <<FindInstruction>> \o Join(existingSkills, ", ")
FindSystemContent(existingSkills) ==
    <<FindInstruction>> \o Join(existingSkills, ", ")

\* ---------------------------------------------------------------- calls

Call(op, arg) == [op |-> op, arg |-> arg]

Issue(op, arg) ==
    /\ calls' = Append(calls, Call(op, arg))
    /\ pending' = pending \cup {Len(calls) + 1}

\* An awaited promise that rejects rejects main's promise: no catch, no retry.
RetryRejected(at) == at
Rejected(at) == "rejected"

Reject(at, what) ==
    /\ pc' = Rejected(at)
    /\ error' = what
    /\ pending' = {}

\* for (const necessarySkill of necessarySkills): the next element.
SkipIndex(k) == k + 2
NextIndex(k) == k + 1

UsefulSkillLists ==
    UNION {[1..n -> SkillNames] : n \in 0..MaxUsefulSkills}

Init ==
    /\ personNodes = [p \in PersonNames |-> 0]
    /\ skillNodes = [s \in SkillNames |-> 0]
    /\ hasSkill = [e \in PersonNames \X SkillNames |-> 0]
    /\ repeatedAssign = FALSE
    /\ pc = "start"
    /\ pending = {}
    /\ calls = <<>>
    /\ allSkills = <<>>
    /\ systemPrompt = <<>>
    /\ usefulSkills = Uninitialized
    /\ i = 0
    /\ records = <<>>
    /\ j = 0
    /\ personContainer = <<>>
    /\ mainPersonContainer = Uninitialized
    /\ matchingPerson = Uninitialized
    /\ output = <<>>
    /\ error = "none"

\* ---------------------------------------------------------------- actions

\* addSkillToPerson(person, skill), run against the store before this run of main.
AddSkillToPerson(person, skill) ==
    /\ pc = "start"
    /\ LET st == AssignSkill(Store, person, skill) IN
        /\ personNodes' = st.persons
        /\ skillNodes' = st.skills
        /\ hasSkill' = st.edges
    /\ repeatedAssign' = (repeatedAssign \/ hasSkill[<<person, skill>>] > 0)
    /\ UNCHANGED <<pc, pending, calls, allSkills, systemPrompt, usefulSkills, i,
                   records, j, personContainer, mainPersonContainer,
                   matchingPerson, output, error>>

\* main: await connectDatabase(), up to databaseDriver.getServerInfo().
ConnectDatabase(envSet) ==
    /\ pc = "start"
    /\ IF envSet
       THEN /\ pc' = "await_getServerInfo"
            /\ Issue("getServerInfo", "")
       ELSE /\ pc' = "exited"
            /\ UNCHANGED <<calls, pending>>
    /\ UNCHANGED <<storeVars, allSkills, systemPrompt, usefulSkills, i, records, j,
                   personContainer, mainPersonContainer, matchingPerson, output,
                   error>>

\* connectDatabase: getServerInfo answers, or throws into the catch (exit 1).
ReturnGetServerInfo(ok) ==
    /\ pc = "await_getServerInfo"
    /\ pc' = IF ok THEN "main_getAllSkills" ELSE "exited"
    /\ pending' = {}
    /\ UNCHANGED <<storeVars, calls, allSkills, systemPrompt, usefulSkills, i,
                   records, j, personContainer, mainPersonContainer,
                   matchingPerson, output, error>>

\* getAllSkills: await databaseDriver.executeQuery(...).
CallGetAllSkills ==
    /\ pc = "main_getAllSkills"
    /\ pc' = "await_getAllSkills"
    /\ Issue("listAllSkills", "")
    /\ UNCHANGED <<storeVars, allSkills, systemPrompt, usefulSkills, i, records, j,
                   personContainer, mainPersonContainer, matchingPerson, output,
                   error>>

\* getAllSkills: the rows come back and are pushed onto skillList in order.
ReturnGetAllSkills ==
    /\ pc = "await_getAllSkills"
    /\ \E rows \in SkillRows :
        /\ allSkills' = rows
        /\ pc' = "main_findNecessarySkills"
        /\ pending' = {}
    /\ UNCHANGED <<storeVars, calls, systemPrompt, usefulSkills, i, records, j,
                   personContainer, mainPersonContainer, matchingPerson, output,
                   error>>

FailGetAllSkills ==
    /\ pc = "await_getAllSkills"
    /\ Reject("main_getAllSkills", "listAllSkills")
    /\ UNCHANGED <<storeVars, calls, allSkills, systemPrompt, usefulSkills, i,
                   records, j, personContainer, mainPersonContainer,
                   matchingPerson, output>>

\* findNecessarySkills: await openai.beta.chat.completions.parse(...).
CallFindNecessarySkills ==
    /\ pc = "main_findNecessarySkills"
    /\ systemPrompt' = FindSystemContent(allSkills)
    /\ pc' = "await_findNecessarySkills"
    /\ Issue("findNecessarySkills", "")
    /\ UNCHANGED <<storeVars, allSkills, usefulSkills, i, records, j,
                   personContainer, mainPersonContainer, matchingPerson, output,
                   error>>

\* findNecessarySkills: return completion.choices[0].message.parsed?.skills.
ReturnFindNecessarySkills ==
    /\ pc = "await_findNecessarySkills"
    /\ \E parsed \in {Null} \cup {Object(q) : q \in UsefulSkillLists} :
        usefulSkills' = IF parsed.kind = "null" THEN Undefined ELSE Array(parsed.val)
    /\ pc' = "main_ifUsefulSkills"
    /\ pending' = {}
    /\ UNCHANGED <<storeVars, calls, allSkills, systemPrompt, i, records, j,
                   personContainer, mainPersonContainer, matchingPerson, output,
                   error>>

FailFindNecessarySkills ==
    /\ pc = "await_findNecessarySkills"
    /\ Reject("main_findNecessarySkills", "findNecessarySkills")
    /\ UNCHANGED <<storeVars, calls, allSkills, systemPrompt, usefulSkills, i,
                   records, j, personContainer, mainPersonContainer,
                   matchingPerson, output>>

\* main: if (usefulSkills) { console.log(usefulSkills); getPersonList(usefulSkills) ...
\* getPersonList starts with an empty personContainer; for...of over a value
\* that is not iterable throws a TypeError.
MainIfUsefulSkills ==
    /\ pc = "main_ifUsefulSkills"
    /\ IF Truthy(usefulSkills)
       THEN /\ output' = Append(output, "usefulSkills")
            /\ personContainer' = <<>>
            /\ IF usefulSkills.kind = "array"
               THEN /\ i' = 1
                    /\ pc' = "getPersonList_for"
                    /\ UNCHANGED error
               ELSE /\ i' = i
                    /\ pc' = "rejected"
                    /\ error' = "TypeError"
       ELSE /\ pc' = "done"
            /\ UNCHANGED <<output, personContainer, i, error>>
    /\ UNCHANGED <<storeVars, pending, calls, allSkills, systemPrompt, usefulSkills,
                   records, j, mainPersonContainer, matchingPerson>>

\* getPersonList: the head of for (const necessarySkill of necessarySkills):
\* query the store for the next skill, or return personContainer to main.
GetPersonListFor ==
    /\ pc = "getPersonList_for"
    /\ IF i <= Len(usefulSkills.val)
       THEN /\ pc' = "await_executeQuery"
            /\ Issue("listPersonsWithSkill", usefulSkills.val[i])
            /\ UNCHANGED mainPersonContainer
       ELSE /\ pc' = "main_findMatchingPerson"
            /\ mainPersonContainer' = Object(personContainer)
            /\ UNCHANGED <<calls, pending>>
    /\ UNCHANGED <<storeVars, allSkills, systemPrompt, usefulSkills, i, records, j,
                   personContainer, matchingPerson, output, error>>

\* getPersonList: the query's rows come back.
ReturnExecuteQuery ==
    /\ pc = "await_executeQuery"
    /\ \E rows \in PersonRows(usefulSkills.val[i]) :
        /\ records' = rows
        /\ j' = 1
        /\ pc' = "getPersonList_records"
        /\ pending' = {}
    /\ UNCHANGED <<storeVars, calls, allSkills, systemPrompt, usefulSkills, i,
                   personContainer, mainPersonContainer, matchingPerson, output,
                   error>>

FailExecuteQuery ==
    /\ pc = "await_executeQuery"
    /\ Reject("getPersonList_for", "listPersonsWithSkill")
    /\ UNCHANGED <<storeVars, calls, allSkills, systemPrompt, usefulSkills, i,
                   records, j, personContainer, mainPersonContainer,
                   matchingPerson, output>>

\* getPersonList: one pass of for (const record of result.records).
ProcessRecord ==
    /\ pc = "getPersonList_records"
    /\ j <= Len(records)
    /\ LET personName == records[j]
           necessarySkill == usefulSkills.val[i]
           found == Get(personContainer, personName)
       IN  IF ~Truthy(found)
           THEN /\ personContainer' = SetOwn(personContainer, personName, <<necessarySkill>>)
                /\ j' = j + 1
                /\ UNCHANGED <<pc, error>>
           ELSE IF found.kind = "array"
           THEN /\ personContainer' = SetOwn(personContainer, personName, Push(found.val, necessarySkill))
                /\ j' = j + 1
                /\ UNCHANGED <<pc, error>>
           ELSE \* .push is not a function
                /\ pc' = "rejected"
                /\ error' = "TypeError"
                /\ UNCHANGED <<personContainer, j>>
    /\ UNCHANGED <<storeVars, pending, calls, allSkills, systemPrompt, usefulSkills,
                   i, records, mainPersonContainer, matchingPerson, output>>

\* getPersonList: the records of this skill are done; on to the next skill.
NextNecessarySkill ==
    /\ pc = "getPersonList_records"
    /\ j > Len(records)
    /\ i' = NextIndex(i)
    /\ pc' = "getPersonList_for"
    /\ UNCHANGED <<storeVars, pending, calls, allSkills, systemPrompt, usefulSkills,
                   records, j, personContainer, mainPersonContainer,
                   matchingPerson, output, error>>

\* findMatchingPerson: await openai.beta.chat.completions.parse(...).
CallFindMatchingPerson ==
    /\ pc = "main_findMatchingPerson"
    /\ pc' = "await_findMatchingPerson"
    /\ Issue("findMatchingPerson", "")
    /\ UNCHANGED <<storeVars, allSkills, systemPrompt, usefulSkills, i, records, j,
                   personContainer, mainPersonContainer, matchingPerson, output,
                   error>>

\* findMatchingPerson: return completion.choices[0].message.parsed;
\* main: console.log(matchingPerson).
ReturnFindMatchingPerson ==
    /\ pc = "await_findMatchingPerson"
    /\ \E parsed \in {Null} \cup {[kind |-> "object", personName |-> p] : p \in PersonNames} :
        matchingPerson' = parsed
    /\ output' = Append(output, "matchingPerson")
    /\ pc' = "done"
    /\ pending' = {}
    /\ UNCHANGED <<storeVars, calls, allSkills, systemPrompt, usefulSkills, i,
                   records, j, personContainer, mainPersonContainer, error>>

FailFindMatchingPerson ==
    /\ pc = "await_findMatchingPerson"
    /\ Reject("main_findMatchingPerson", "findMatchingPerson")
    /\ UNCHANGED <<storeVars, calls, allSkills, systemPrompt, usefulSkills, i,
                   records, j, personContainer, mainPersonContainer,
                   matchingPerson, output>>

Next ==
    \/ \E person \in PersonNames, skill \in SkillNames : AddSkillToPerson(person, skill)
    \/ \E envSet \in BOOLEAN : ConnectDatabase(envSet)
    \/ \E ok \in BOOLEAN : ReturnGetServerInfo(ok)
    \/ CallGetAllSkills
    \/ ReturnGetAllSkills
    \/ FailGetAllSkills
    \/ CallFindNecessarySkills
    \/ ReturnFindNecessarySkills
    \/ FailFindNecessarySkills
    \/ MainIfUsefulSkills
    \/ GetPersonListFor
    \/ ReturnExecuteQuery
    \/ FailExecuteQuery
    \/ ProcessRecord
    \/ NextNecessarySkill
    \/ CallFindMatchingPerson
    \/ ReturnFindMatchingPerson
    \/ FailFindMatchingPerson

Spec == Init /\ [][Next]_vars

\* ---------------------------------------------------------------- properties

IsPrefix(q, r) == Len(q) <= Len(r) /\ \A k \in 1..Len(q) : q[k] = r[k]

NoRepeats(q) == \A a, b \in 1..Len(q) : a # b => q[a] # q[b]

Ops == {calls[k].op : k \in 1..Len(calls)}

\* The persons the store links to a skill by at least one HAS_SKILL edge.
Holders(skill) == {p \in PersonNames : hasSkill[<<p, skill>>] > 0}

\* The adapter calls of the workflow.
AdapterCalls ==
    {"listAllSkills", "findNecessarySkills", "listPersonsWithSkill", "findMatchingPerson"}

\* C1: when step 2 yields the empty skill sequence, no store query for persons
\* and no match call is ever issued.
C1_EmptySkillsShortCircuit ==
    (usefulSkills.kind = "array" /\ Len(usefulSkills.val) = 0)
        => Ops \cap {"listPersonsWithSkill", "findMatchingPerson"} = {}

\* C2: for a non-empty relevant-skill sequence, the map getPersonList returns
\* has as keys exactly the persons the store returns for at least one relevant
\* skill, each key once, and each entry holds exactly the relevant skills that
\* person holds; no entry is empty.
C2_MapHoldsExactlyTheHolders ==
    (mainPersonContainer.kind = "object" /\ Len(usefulSkills.val) > 0) =>
        LET m == mainPersonContainer.val
            relevant == Range(usefulSkills.val)
        IN  /\ Keys(m) = UNION {Holders(s) : s \in relevant}
            /\ \A a, b \in 1..Len(m) : a # b => m[a].key # m[b].key
            /\ \A k \in 1..Len(m) :
                /\ Range(m[k].value) = {s \in relevant : m[k].key \in Holders(s)}
                /\ Len(m[k].value) > 0

\* Two persons hold the one relevant skill; a third person of the store holds
\* only another skill and has no entry.
C2_Witness ==
    /\ mainPersonContainer.kind = "object"
    /\ usefulSkills.val = <<"C#">>
    /\ Len(mainPersonContainer.val) = 2
    /\ \E p \in PersonNames \ Keys(mainPersonContainer.val) : personNodes[p] = 1

\* C3: no person's list in the map being built holds the same skill twice.
C3_NoSkillCountedTwice ==
    \A k \in 1..Len(personContainer) : NoRepeats(personContainer[k].value)

\* C4: each person's list in the returned map is the relevant-skill sequence,
\* in the order step 2 returned it, restricted to the skills that person holds.
C4_ListsKeepSkillOrder ==
    mainPersonContainer.kind = "object" =>
        \A k \in 1..Len(mainPersonContainer.val) :
            LET e == mainPersonContainer.val[k] IN
            e.value = SelectSeq(usefulSkills.val, LAMBDA s : e.key \in Holders(s))

C4_Witness ==
    /\ mainPersonContainer.kind = "object"
    /\ \E k \in 1..Len(mainPersonContainer.val) :
        /\ mainPersonContainer.val[k].key = "Lius Hohmann"
        /\ mainPersonContainer.val[k].value = <<"JavaScript", "C#">>

\* C5: an absent result of a structured-extraction call is no error.  After an
\* absent step-2 result main ends without raising, having issued no call after
\* step 2 and written nothing; after an absent step-4 result main ends without
\* raising.
C5_AbsentIsNotAnError ==
    /\ usefulSkills.kind = "undefined" =>
        /\ pc \in {"main_ifUsefulSkills", "done"}
        /\ error = "none"
        /\ pending = {}
        /\ calls[Len(calls)].op = "findNecessarySkills"
        /\ Len(output) = 0
    /\ matchingPerson.kind = "null" => (pc = "done" /\ error = "none" /\ pending = {})

C5_Witness ==
    /\ pc = "done"
    /\ usefulSkills.kind = "undefined"
    /\ Len(allSkills) > 0

\* The step-4 case of C5: the match call answered with no parsed object.
C5_WitnessMatch == pc = "done" /\ matchingPerson.kind = "null"

\* C6 as stated: after an adapter failure the workflow has stopped, the failed
\* call is the last one issued, and no result at all has been written.
C6_FailureLeavesNoResult ==
    error \in AdapterCalls =>
        /\ pc = "rejected"
        /\ pending = {}
        /\ calls[Len(calls)].op = error
        /\ Len(output) = 0

\* C6 amended: after an adapter failure the workflow has stopped, the failed
\* call is the last one issued (nothing later, no second attempt), and no
\* MatchResult has been produced or written; the relevant-skill list is
\* written exactly when the failure came after step 2.
C6_FailureAbortsWithoutMatch ==
    error \in AdapterCalls =>
        /\ pc = "rejected"
        /\ pending = {}
        /\ calls[Len(calls)].op = error
        /\ matchingPerson.kind = "uninitialized"
        /\ output = IF error \in {"listPersonsWithSkill", "findMatchingPerson"}
                    THEN <<"usefulSkills">> ELSE <<>>

C6_Witness ==
    /\ error = "listPersonsWithSkill"
    /\ Len(personContainer) > 0
    /\ output = <<"usefulSkills">>

\* The system prompt tells the model to choose out of a list.
InstructsChoiceFromList(prompt) == prompt[1] = FindInstruction

\* C7 as stated: with no known skill, the step-2 system prompt does not tell
\* the model to choose out of a list.
C7_EmptyListChangesInstruction ==
    (Len(systemPrompt) > 0 /\ Len(allSkills) = 0)
        => ~InstructsChoiceFromList(systemPrompt)

\* C7 amended: the step-2 system prompt always carries the same instruction to
\* choose out of a list, followed by the known skills joined by ", "; with no
\* known skill nothing follows the instruction.
C7_SameInstructionEmptyList ==
    Len(systemPrompt) > 0 =>
        /\ InstructsChoiceFromList(systemPrompt)
        /\ Len(allSkills) = 0 => Len(systemPrompt) = 1
        /\ Len(allSkills) > 0 => Len(systemPrompt) = 2 * Len(allSkills)
        /\ \A k \in 1..Len(allSkills) : systemPrompt[2 * k] = allSkills[k]

C7_Witness == Len(systemPrompt) = 1 /\ Len(allSkills) = 0 /\ pc = "done"

\* C8: addSkillToPerson is idempotent in every reachable store, and the store
\* never holds two nodes of one name or two edges between one pair.
C8_AssignSkillIdempotent ==
    /\ \A p \in PersonNames : personNodes[p] <= 1
    /\ \A s \in SkillNames : skillNodes[s] <= 1
    /\ \A e \in PersonNames \X SkillNames : hasSkill[e] <= 1
    /\ \A p \in PersonNames, s \in SkillNames :
        AssignSkill(AssignSkill(Store, p, s), p, s) = AssignSkill(Store, p, s)

C8_Witness ==
    /\ repeatedAssign
    /\ hasSkill[<<"Lius Hohmann", "C#">>] = 1
    /\ hasSkill[<<"Lius Hohmann", "JavaScript">>] = 1
    /\ personNodes["Lius Hohmann"] = 1

\* The calls main issues when nothing fails, given what step 2 returned.
ExpectedCalls ==
    <<Call("getServerInfo", ""), Call("listAllSkills", ""), Call("findNecessarySkills", "")>>
    \o (IF usefulSkills.kind = "array"
        THEN [k \in 1..Len(usefulSkills.val) |-> Call("listPersonsWithSkill", usefulSkills.val[k])]
             \o <<Call("findMatchingPerson", "")>>
        ELSE <<>>)

\* C9: at most one call is outstanding, and it is the last one issued; the calls
\* issued are always a prefix of: connect, list all skills, step 2, one person
\* query per relevant skill in order, the match call; a run that ends normally
\* has issued them all.
C9_OneCallAtATimeInOrder ==
    /\ Cardinality(pending) <= 1
    /\ pending # {} => pending = {Len(calls)}
    /\ IsPrefix(calls, ExpectedCalls)
    /\ pc \in {"await_findMatchingPerson", "done"} => calls = ExpectedCalls

C9_Witness ==
    /\ pc = "await_findMatchingPerson"
    /\ pending = {Len(calls)}
    /\ Len(calls) = 6
    /\ calls[4].arg # calls[5].arg

\* C10: when no store query fails, getPersonList raises nothing.
C10_GetPersonListReturnsNormally ==
    ~(pc = "rejected" /\ error = "TypeError")
====
